---- MODULE Spec2Model ----
(***************************************************************************)
(* The H3C VXLAN type driver (src/h3c/type_h3c_vxlan.py): the table of    *)
(* VNI allocation records, the driver's configured tunnel_ranges, and the *)
(* operations initialize / sync_allocations, allocate_tenant_segment,     *)
(* reserve_provider_segment and release_segment.                           *)
(*                                                                         *)
(* A row of ml2_h3c_vxlan_allocations is a record                          *)
(*   [vxlan_vni |-> Int, allocated |-> BOOLEAN];                           *)
(* the table is a set of rows.  A range is a pair <<tun_min, tun_max>>.    *)
(***************************************************************************)
EXTENDS Integers, Sequences, FiniteSets

VARIABLES
    tunnel_ranges,  \* self.tunnel_ranges: sequence of <<tun_min, tun_max>>
    allocations,    \* rows of the table ml2_h3c_vxlan_allocations
    serving,        \* TRUE from initialize returning without SystemExit to the stop
    last,           \* the call made last, its argument and its outcome
    pruned,         \* vnis deleted by release_segment and not re-created since
    callers,        \* concurrent scenario: the requests and their outcomes
    free0,          \* concurrent scenario: unallocated rows at the start
    held,           \* vnis returned by an allocation and not released since
    conf,           \* cfg.CONF.ml2_type_h3c_vxlan.vni_ranges, where the parser is run on it
    txn             \* the transaction of a sync_allocations run in steps

vars == <<tunnel_ranges, allocations, serving, last, pruned, callers, free0, held, conf, txn>>

----------------------------------------------------------------------------
(* Bounds of the model *)

\* n_const.MAX_VXLAN_VNI, scaled down from 2^24 - 1
MAX_VXLAN_VNI == 2
\* longest configured vni_ranges list
MaxRanges == 2
\* number of concurrent allocation requests in the concurrent scenario
NCallers == 3

(* Program constants *)

\* n_const.MIN_VXLAN_VNI
MIN_VXLAN_VNI == 1
\* the value of a missing segmentation id / a call returning no row
NONE == -1

\* integers used as vnis in requests and range bounds: the valid domain and
\* one value on each side of it
Vnis == (MIN_VXLAN_VNI - 1)..(MAX_VXLAN_VNI + 1)

----------------------------------------------------------------------------
(* Configuration entries.  An entry of cfg.CONF.ml2_type_h3c_vxlan         *)
(* .vni_ranges is a string; what the parser reads of it is the number of  *)
(* fields entry.split(':') yields, whether int() accepts both fields, and *)
(* the two integers.                                                       *)

Entry(n, isint, lo, hi) == [fields |-> n, ints |-> isint, tun_min |-> lo, tun_max |-> hi]

WellFormedEntries == {Entry(2, TRUE, lo, hi) : lo \in Vnis, hi \in Vnis}

MalformedEntries == {Entry(1, TRUE, 0, 0), Entry(3, TRUE, 0, 0), Entry(2, FALSE, 0, 0)}

Entries == WellFormedEntries \cup MalformedEntries

RECURSIVE SeqsUpTo(_, _)
SeqsUpTo(S, n) ==
    IF n = 0 THEN {<<>>}
    ELSE LET shorter == SeqsUpTo(S, n - 1)
         IN  shorter \cup {Append(s, x) : s \in {t \in shorter : Len(t) = n - 1}, x \in S}

Configs == SeqsUpTo(Entries, MaxRanges)

----------------------------------------------------------------------------
(* Range parsing and validation *)

_is_valid_h3c_vni(vni) == MIN_VXLAN_VNI <= vni /\ vni <= MAX_VXLAN_VNI

\* mutant: the order of the bounds is checked before their values
_parse_h3c_vni_range_order_first(tunnel_range) ==
    IF tunnel_range[2] < tunnel_range[1] THEN "order"
    ELSE IF \E i \in 1..2 : ~_is_valid_h3c_vni(tunnel_range[i]) THEN "value"
    ELSE "ok"

\* "ok", or the error raised: "value" (a bound is no valid VNI, the bounds
\* examined in order) or "order" (end below start)
_parse_h3c_vni_range(tunnel_range) ==
    IF \E i \in 1..2 : ~_is_valid_h3c_vni(tunnel_range[i]) THEN "value"
    ELSE IF tunnel_range[2] < tunnel_range[1] THEN "order"
    ELSE "ok"

\* the bound named by the "value" error: the first invalid one
first_invalid(tunnel_range) ==
    IF ~_is_valid_h3c_vni(tunnel_range[1]) THEN tunnel_range[1] ELSE tunnel_range[2]

\* The loop over the entries: each accepted range is appended to
\* current_range at once, so an error leaves the earlier ones in it.
\* Result: [ranges |-> current_range, error |-> "ok" | "format" | "value" | "order"]
RECURSIVE _parse_h3c_vni_ranges(_, _)
_parse_h3c_vni_ranges(entries, current_range) ==
    IF entries = <<>> THEN [ranges |-> current_range, error |-> "ok"]
    ELSE LET entry == Head(entries)
             tunnel_range == <<entry.tun_min, entry.tun_max>>
         IN  IF entry.fields # 2 \/ ~entry.ints
                 THEN [ranges |-> current_range, error |-> "format"]
             ELSE IF _parse_h3c_vni_range(tunnel_range) # "ok"
                 THEN [ranges |-> current_range,
                       error |-> _parse_h3c_vni_range(tunnel_range)]
             ELSE _parse_h3c_vni_ranges(Tail(entries),
                                        Append(current_range, tunnel_range))

\* _verify_vni_ranges: any exception of the parser becomes SystemExit
_verify_vni_ranges(entries) ==
    LET parsed == _parse_h3c_vni_ranges(entries, <<>>)
    IN  [ranges |-> parsed.ranges, exit |-> parsed.error # "ok"]

----------------------------------------------------------------------------
(* sync_allocations *)

\* vxlan_vnis: the union of xrange(tun_min, tun_max + 1) over the ranges
vxlan_vnis(ranges) ==
    UNION {ranges[i][1]..ranges[i][2] : i \in 1..Len(ranges)}

existing_vnis(allocs) == {alloc.vxlan_vni : alloc \in allocs}

\* mutant: also collects allocated rows outside the ranges
vnis_to_remove_any(allocs, vnis) ==
    {alloc.vxlan_vni : alloc \in {a \in allocs : a.vxlan_vni \notin vnis}}

\* mutant: collects every unallocated row, configured or not
vnis_to_remove_unallocated(allocs, vnis) ==
    {alloc.vxlan_vni : alloc \in {a \in allocs : ~a.allocated}}

\* the vnis of the rows to delete: outside the ranges and not allocated
vnis_to_remove(allocs, vnis) ==
    {alloc.vxlan_vni : alloc \in {a \in allocs : a.vxlan_vni \notin vnis /\ ~a.allocated}}

\* mutant: inserts every configured vni
vnis_to_add_all(vnis, existing) == vnis

\* vnis = list(vxlan_vnis - existing_vnis)
vnis_to_add(vnis, existing) == vnis \ existing

\* a Python list of the elements of a set of integers (ascending order here;
\* the code's order is the query's and the set's iteration order)
RECURSIVE list(_)
list(S) ==
    IF S = {} THEN <<>>
    ELSE LET m == CHOOSE x \in S : \A y \in S : x <= y
         IN  <<m>> \o list(S \ {m})

\* chunk size of the bulk deletes and inserts
bulk_size == 100

\* mutant: range(0, len(l) - size + 1, size), the last partial chunk is lost
RECURSIVE chunked_full_only(_, _)
chunked_full_only(l, size) ==
    IF Len(l) < size THEN <<>>
    ELSE <<SubSeq(l, 1, size)>> \o chunked_full_only(SubSeq(l, size + 1, Len(l)), size)

\* (l[i:i + size] for i in range(0, len(l), size))
RECURSIVE chunked(_, _)
chunked(l, size) ==
    IF Len(l) = 0 THEN <<>>
    ELSE IF Len(l) <= size THEN <<l>>
    ELSE <<SubSeq(l, 1, size)>> \o chunked(SubSeq(l, size + 1, Len(l)), size)

Elems(l) == {l[i] : i \in 1..Len(l)}

\* query.filter(vxlan_vni.in_(vni_list)).delete() for each chunk in turn
RECURSIVE delete_chunks(_, _)
delete_chunks(allocs, chunks) ==
    IF chunks = <<>> THEN allocs
    ELSE delete_chunks(
             IF Head(chunks) # <<>>
                 THEN {a \in allocs : a.vxlan_vni \notin Elems(Head(chunks))}
                 ELSE allocs,
             Tail(chunks))

\* session.execute(insert(), bulk) for each chunk in turn
RECURSIVE insert_chunks(_, _)
insert_chunks(allocs, chunks) ==
    IF chunks = <<>> THEN allocs
    ELSE insert_chunks(
             allocs \cup {[vxlan_vni |-> vni, allocated |-> FALSE] : vni \in Elems(Head(chunks))},
             Tail(chunks))

\* the table after the transaction's deletes and inserts, run on table
\* allocs with the ranges, the chunks being of the given size
sync_allocations_sized(allocs, ranges, size) ==
    LET vnis == vxlan_vnis(ranges)
        removed == delete_chunks(allocs,
                       chunked(list(vnis_to_remove(allocs, vnis)), size))
    IN  insert_chunks(removed,
            chunked(list(vnis_to_add(vnis, existing_vnis(allocs))), size))

\* the table after sync_allocations, run on table allocs with the ranges
sync_allocations(allocs, ranges) ==
    sync_allocations_sized(allocs, ranges, bulk_size)

----------------------------------------------------------------------------
(* The allocator.  allocate_partially_specified_segment,                   *)
(* allocate_fully_specified_segment and is_partial_segment are inherited   *)
(* from the tunnel type driver's base class; they are modelled from the    *)
(* allocator's contract (allocate_any / allocate_specific), each call one  *)
(* transaction on the rows it targets.                                     *)

set_allocated(allocs, vni, flag) ==
    {a \in allocs : a.vxlan_vni # vni}
        \cup {[vxlan_vni |-> vni, allocated |-> flag] : a \in {b \in allocs : b.vxlan_vni = vni}}

free_vnis(allocs) == {a.vxlan_vni : a \in {b \in allocs : ~b.allocated}}

\* allocate_any: the possible outcomes [alloc |-> vni or NONE, allocs |-> table]
allocate_partially_specified_segment(allocs) ==
    IF free_vnis(allocs) = {}
        THEN {[alloc |-> NONE, allocs |-> allocs]}
        ELSE {[alloc |-> vni, allocs |-> set_allocated(allocs, vni, TRUE)] :
                  vni \in free_vnis(allocs)}

\* allocate_specific: a free row is taken; an allocated or missing row gives
\* no alloc and no change
allocate_fully_specified_segment(allocs, vni) ==
    IF vni \in free_vnis(allocs)
        THEN [alloc |-> vni, allocs |-> set_allocated(allocs, vni, TRUE)]
        ELSE [alloc |-> NONE, allocs |-> allocs]

\* a segment is its segmentation id, NONE when the request names none
is_partial_segment(segment) == segment = NONE

\* mutant: hands out any row, allocated or not
allocate_tenant_segment_any(allocs) ==
    IF allocs = {}
        THEN {[result |-> "None", vni |-> NONE, allocs |-> allocs]}
        ELSE {[result |-> "segment", vni |-> a.vxlan_vni,
               allocs |-> set_allocated(allocs, a.vxlan_vni, TRUE)] : a \in allocs}

\* the possible outcomes [result, vni, allocs]; result "None" is the bare return
allocate_tenant_segment(allocs) ==
    {[result |-> IF o.alloc = NONE THEN "None" ELSE "segment",
      vni |-> o.alloc,
      allocs |-> o.allocs] : o \in allocate_partially_specified_segment(allocs)}

\* mutant: the segmentation id is not looked at, any free row is taken
reserve_provider_segment_any(allocs, segment) ==
    {[result |-> IF o.alloc = NONE THEN "NoNetworkAvailable" ELSE "segment",
      vni |-> o.alloc,
      allocs |-> o.allocs] : o \in allocate_partially_specified_segment(allocs)}

\* mutant: the check of the fully specified allocation's result is missing
reserve_provider_segment_nocheck(allocs, segment) ==
    IF is_partial_segment(segment)
        THEN {[result |-> IF o.alloc = NONE THEN "NoNetworkAvailable" ELSE "segment",
               vni |-> o.alloc,
               allocs |-> o.allocs] : o \in allocate_partially_specified_segment(allocs)}
        ELSE LET o == allocate_fully_specified_segment(allocs, segment)
             IN  {[result |-> "segment", vni |-> segment, allocs |-> o.allocs]}

\* mutant: an exhausted pool is reported as a segment without an id
reserve_provider_segment_noraise(allocs, segment) ==
    IF is_partial_segment(segment)
        THEN {[result |-> "segment", vni |-> o.alloc, allocs |-> o.allocs] :
                  o \in allocate_partially_specified_segment(allocs)}
        ELSE LET o == allocate_fully_specified_segment(allocs, segment)
             IN  {[result |-> IF o.alloc = NONE THEN "TunnelIdInUse" ELSE "segment",
                   vni |-> o.alloc,
                   allocs |-> o.allocs]}

\* the possible outcomes [result, vni, allocs]; result is "segment" or the
\* exception raised
reserve_provider_segment(allocs, segment) ==
    IF is_partial_segment(segment)
        THEN {[result |-> IF o.alloc = NONE THEN "NoNetworkAvailable" ELSE "segment",
               vni |-> o.alloc,
               allocs |-> o.allocs] : o \in allocate_partially_specified_segment(allocs)}
        ELSE LET o == allocate_fully_specified_segment(allocs, segment)
             IN  {[result |-> IF o.alloc = NONE THEN "TunnelIdInUse" ELSE "segment",
                   vni |-> o.alloc,
                   allocs |-> o.allocs]}

inside(ranges, vxlan_vni) ==
    \E i \in 1..Len(ranges) : ranges[i][1] <= vxlan_vni /\ vxlan_vni <= ranges[i][2]

\* mutant: marks the row unallocated, creating it when it is missing
release_segment_upsert(allocs, ranges, vxlan_vni) ==
    [allocs |-> {a \in allocs : a.vxlan_vni # vxlan_vni}
                    \cup {[vxlan_vni |-> vxlan_vni, allocated |-> FALSE]},
     count |-> 1]

\* mutant: the query is not filtered by vxlan_vni
release_segment_nofilter(allocs, ranges, vxlan_vni) ==
    IF inside(ranges, vxlan_vni)
        THEN [allocs |-> {[vxlan_vni |-> a.vxlan_vni, allocated |-> FALSE] : a \in allocs},
              count |-> Cardinality(allocs)]
        ELSE [allocs |-> {}, count |-> Cardinality(allocs)]

\* mutant: the row goes back to the pool whether configured or not
release_segment_update(allocs, ranges, vxlan_vni) ==
    [allocs |-> set_allocated(allocs, vxlan_vni, FALSE),
     count |-> Cardinality({a \in allocs : a.vxlan_vni = vxlan_vni})]

\* [allocs |-> the table after the call, count |-> rows updated or deleted];
\* count = 0 logs the warning "vxlan_vni not found"
release_segment(allocs, ranges, vxlan_vni) ==
    LET query == {a \in allocs : a.vxlan_vni = vxlan_vni}
    IN  IF inside(ranges, vxlan_vni)
            THEN [allocs |-> set_allocated(allocs, vxlan_vni, FALSE),
                  count |-> Cardinality(query)]
            ELSE [allocs |-> allocs \ query,
                  count |-> Cardinality(query)]

\* what _verify_vni_ranges leaves behind, over every configuration: the
\* ranges appended to tunnel_ranges and whether the service exits
Startups == {_verify_vni_ranges(entries) : entries \in Configs}

----------------------------------------------------------------------------
(* The driver as a state machine: one call at a time *)

\* no sync_allocations transaction is open
NoTxn == [pc |-> "none"]

NoCall == [op |-> "none", arg |-> NONE, result |-> "none", vni |-> NONE,
           removed |-> {}, added |-> {}, repeat |-> FALSE, waited |-> {}]

Init ==
    /\ tunnel_ranges = <<>>
    /\ allocations = {}
    /\ serving = FALSE
    /\ last = NoCall
    /\ pruned = {}
    /\ callers = <<>>
    /\ free0 = 0
    /\ held = {}
    /\ conf = <<>>
    /\ txn = NoTxn

\* initialize, run when the service starts: tunnel_ranges = [], then
\* _verify_vni_ranges on the configured entries, then sync_allocations
Initialize(verified) ==
    LET vnis == vxlan_vnis(verified.ranges)
    IN  /\ ~serving
        /\ tunnel_ranges' = verified.ranges
        /\ allocations' = IF verified.exit THEN allocations
                          ELSE sync_allocations(allocations, verified.ranges)
        /\ serving' = ~verified.exit
        /\ last' = [op |-> "initialize", arg |-> NONE,
                    result |-> IF verified.exit THEN "SystemExit" ELSE "ok",
                    vni |-> NONE,
                    removed |-> IF verified.exit THEN {}
                                ELSE vnis_to_remove(allocations, vnis),
                    added |-> IF verified.exit THEN {}
                              ELSE vnis_to_add(vnis, existing_vnis(allocations)),
                    waited |-> {},
                    repeat |-> /\ ~verified.exit
                               /\ last.op = "stop" /\ last.repeat
                               /\ verified.ranges = tunnel_ranges]
        /\ pruned' = pruned \ existing_vnis(allocations')
        /\ UNCHANGED <<callers, free0, held, conf, txn>>

AllocateTenantSegment ==
    /\ serving
    /\ \E o \in allocate_tenant_segment(allocations) :
        /\ allocations' = o.allocs
        /\ last' = [NoCall EXCEPT !.op = "allocate_tenant_segment",
                                  !.result = o.result, !.vni = o.vni]
        /\ held' = IF o.result = "segment" THEN held \cup {o.vni} ELSE held
    /\ UNCHANGED <<tunnel_ranges, serving, pruned, callers, free0, conf, txn>>

ReserveProviderSegment(segment) ==
    /\ serving
    /\ \E o \in reserve_provider_segment(allocations, segment) :
        /\ allocations' = o.allocs
        /\ last' = [NoCall EXCEPT !.op = "reserve_provider_segment", !.arg = segment,
                                  !.result = o.result, !.vni = o.vni]
        /\ held' = IF o.result = "segment" THEN held \cup {o.vni} ELSE held
    /\ UNCHANGED <<tunnel_ranges, serving, pruned, callers, free0, conf, txn>>

ReleaseSegment(vxlan_vni) ==
    /\ serving
    /\ LET r == release_segment(allocations, tunnel_ranges, vxlan_vni)
       IN  /\ allocations' = r.allocs
           /\ last' = [NoCall EXCEPT !.op = "release_segment", !.arg = vxlan_vni,
                                     !.result = IF r.count = 0 THEN "warning" ELSE "ok"]
           /\ pruned' = IF vxlan_vni \in existing_vnis(allocations)
                           /\ vxlan_vni \notin existing_vnis(r.allocs)
                            THEN pruned \cup {vxlan_vni}
                            ELSE pruned
           /\ held' = held \ {vxlan_vni}
    /\ UNCHANGED <<tunnel_ranges, serving, callers, free0, conf, txn>>

\* the service stops, to be started again with the configuration of the
\* day; the table stays, and tunnel_ranges is what the next initialize
\* overwrites.  last.repeat: the service stops right after a sync
Stop ==
    /\ serving
    /\ serving' = FALSE
    /\ last' = [NoCall EXCEPT !.op = "stop",
                              !.repeat = (last.op = "initialize" /\ last.result = "ok")]
    /\ UNCHANGED <<tunnel_ranges, allocations, pruned, callers, free0, held, conf, txn>>

Next ==
    \/ \E verified \in Startups : Initialize(verified)
    \/ Stop
    \/ AllocateTenantSegment
    \/ \E segment \in Vnis \cup {NONE} : ReserveProviderSegment(segment)
    \/ \E vxlan_vni \in Vnis : ReleaseSegment(vxlan_vni)

Spec == Init /\ [][Next]_vars

----------------------------------------------------------------------------
(* Tables and ranges a serving driver can meet *)

ValidRanges == {<<lo, hi>> : lo \in MIN_VXLAN_VNI..MAX_VXLAN_VNI, hi \in MIN_VXLAN_VNI..MAX_VXLAN_VNI}
                   \cap {r \in Vnis \X Vnis : r[1] <= r[2]}

RangeLists == SeqsUpTo(ValidRanges, MaxRanges)

\* the table holding one row per vni of present, allocated for those of taken
Table(present, taken) ==
    {[vxlan_vni |-> vni, allocated |-> vni \in taken] : vni \in present}

\* after sync_allocations every configured vni has a row and every free row
\* is configured; allocated rows may lie anywhere in the VNI domain
SyncedTables(ranges) ==
    {Table(vxlan_vnis(ranges) \cup taken, taken) :
         taken \in SUBSET (MIN_VXLAN_VNI..MAX_VXLAN_VNI)}

\* any table with one row per vni: the table is shared, and rows come and go
\* by other drivers' reconciliations and releases
AnyTables ==
    {Table(present, taken) : present \in SUBSET (MIN_VXLAN_VNI..MAX_VXLAN_VNI),
                             taken \in SUBSET (MIN_VXLAN_VNI..MAX_VXLAN_VNI)}

----------------------------------------------------------------------------
(* A serving driver on an arbitrary table: allocate and release calls only *)

InitStore ==
    /\ tunnel_ranges \in RangeLists
    /\ allocations \in AnyTables
    /\ serving = TRUE
    /\ last = NoCall
    /\ pruned = {}
    /\ callers = <<>>
    /\ free0 = 0
    /\ held = {}
    /\ conf = <<>>
    /\ txn = NoTxn

NextStore ==
    \/ AllocateTenantSegment
    \/ \E segment \in Vnis \cup {NONE} : ReserveProviderSegment(segment)
    \/ \E vxlan_vni \in Vnis : ReleaseSegment(vxlan_vni)

SpecStore == InitStore /\ [][NextStore]_vars

----------------------------------------------------------------------------
(* Concurrent allocate-any requests: callers 1..n, each one call of        *)
(* allocate_tenant_segment or of reserve_provider_segment with a partial   *)
(* segment, taking their steps in any order.                               *)

AllocateAnyOps == {"allocate_tenant_segment", "reserve_provider_segment"}

Pending(op) == [op |-> op, result |-> "pending", vni |-> NONE]

InitConc ==
    /\ tunnel_ranges \in RangeLists
    /\ allocations \in SyncedTables(tunnel_ranges)
    /\ serving = TRUE
    /\ last = NoCall
    /\ pruned = {}
    /\ \E n \in 1..NCallers : callers \in [1..n -> {Pending(op) : op \in AllocateAnyOps}]
    /\ free0 = Cardinality(free_vnis(allocations))
    /\ held = {}
    /\ conf = <<>>
    /\ txn = NoTxn

ConcAllocateTenantSegment(i) ==
    /\ callers[i].op = "allocate_tenant_segment"
    /\ callers[i].result = "pending"
    /\ \E o \in allocate_tenant_segment(allocations) :
        /\ allocations' = o.allocs
        /\ callers' = [callers EXCEPT ![i].result = o.result, ![i].vni = o.vni]
    /\ UNCHANGED <<tunnel_ranges, serving, last, pruned, free0, held, conf, txn>>

ConcReserveProviderSegment(i) ==
    /\ callers[i].op = "reserve_provider_segment"
    /\ callers[i].result = "pending"
    /\ \E o \in reserve_provider_segment(allocations, NONE) :
        /\ allocations' = o.allocs
        /\ callers' = [callers EXCEPT ![i].result = o.result, ![i].vni = o.vni]
    /\ UNCHANGED <<tunnel_ranges, serving, last, pruned, free0, held, conf, txn>>

NextConc ==
    \/ \E i \in DOMAIN callers : ConcAllocateTenantSegment(i)
    \/ \E i \in DOMAIN callers : ConcReserveProviderSegment(i)

SpecConc == InitConc /\ [][NextConc]_vars

----------------------------------------------------------------------------
(* Properties.  A step of the driver is identified by last', the call the  *)
(* step makes; the unprimed variables are the state before the call.       *)

Rows(allocs, vni) == {a \in allocs : a.vxlan_vni = vni}

Synced == last'.op = "initialize" /\ last'.result = "ok"

FullReserve == last'.op = "reserve_provider_segment" /\ last'.arg # NONE

PartialReserve == last'.op = "reserve_provider_segment" /\ last'.arg = NONE

TenantAllocate == last'.op = "allocate_tenant_segment"

Release == last'.op = "release_segment"

\* C1: after a successful sync_allocations every vni covered by some
\* configured range has exactly one row; the row is allocated exactly when
\* a row for that vni was allocated before the call.
C1_SyncCoversRanges ==
    [][Synced =>
          \A vni \in vxlan_vnis(tunnel_ranges') :
              /\ Cardinality(Rows(allocations', vni)) = 1
              /\ \A a \in Rows(allocations', vni) :
                     a.allocated = (\E b \in Rows(allocations, vni) : b.allocated)]_vars

\* two overlapping ranges were synced; a covered vni that was allocated is
\* still allocated and a covered vni was inserted free
C1_Witness ==
    /\ last.op = "initialize" /\ last.result = "ok"
    /\ Len(tunnel_ranges) = 2
    /\ \E vni \in Vnis : inside(<<tunnel_ranges[1]>>, vni) /\ inside(<<tunnel_ranges[2]>>, vni)
    /\ \E a \in allocations : a.allocated /\ inside(tunnel_ranges, a.vxlan_vni)
    /\ \E vni \in last.added : [vxlan_vni |-> vni, allocated |-> FALSE] \in allocations

\* C2: sync_allocations removes every unallocated row outside the configured
\* ranges and leaves every allocated row in the table as it was, inside the
\* ranges or not.
C2_SyncPrunesOnlyUnallocated ==
    [][Synced =>
          \A a \in allocations :
              /\ (~a.allocated /\ ~inside(tunnel_ranges', a.vxlan_vni))
                     => Rows(allocations', a.vxlan_vni) = {}
              /\ a.allocated => Rows(allocations', a.vxlan_vni) = {a}]_vars

\* a sync removed unallocated rows and kept an allocated row outside the ranges
C2_Witness ==
    /\ last.op = "initialize" /\ last.result = "ok"
    /\ last.removed # {}
    /\ \A vni \in last.removed : Rows(allocations, vni) = {}
    /\ \E a \in allocations : a.allocated /\ ~inside(tunnel_ranges, a.vxlan_vni)

----------------------------------------------------------------------------
(* Concurrent allocate-any requests *)

Done == \A i \in DOMAIN callers : callers[i].result # "pending"

Succeeded == {i \in DOMAIN callers : callers[i].result = "segment"}

Min(a, b) == IF a <= b THEN a ELSE b

\* C3: of n concurrent allocate-any requests on a table with free0
\* unallocated rows exactly min(n, free0) get a segment, the others report
\* exhaustion (allocate_tenant_segment returns nothing,
\* reserve_provider_segment raises NoNetworkAvailable), and no vni is handed
\* to two callers.
C3_ConcurrentAllocateAny ==
    /\ \A i \in Succeeded : \A j \in Succeeded : i # j => callers[i].vni # callers[j].vni
    /\ Done =>
        /\ Cardinality(Succeeded) = Min(Len(callers), free0)
        /\ \A i \in DOMAIN callers \ Succeeded :
               callers[i].result = IF callers[i].op = "allocate_tenant_segment"
                                       THEN "None" ELSE "NoNetworkAvailable"

\* more callers than free rows: some got distinct segments, one caller of
\* each kind was told the pool is exhausted
C3_Witness ==
    /\ callers # <<>>
    /\ Done
    /\ free0 > 0
    /\ Cardinality(Succeeded) = free0
    /\ \E i \in DOMAIN callers : callers[i].result = "None"
    /\ \E i \in DOMAIN callers : callers[i].result = "NoNetworkAvailable"

----------------------------------------------------------------------------
(* Fully specified allocation *)

\* C4: reserve_provider_segment with a segmentation id whose row is
\* allocated raises TunnelIdInUse and leaves the table as it was.
C4_AllocatedIdInUse ==
    [][(FullReserve /\ \E a \in Rows(allocations, last'.arg) : a.allocated)
           => (last'.result = "TunnelIdInUse" /\ allocations' = allocations)]_vars

\* a request for an allocated vni was refused with TunnelIdInUse
C4_Witness ==
    /\ last.op = "reserve_provider_segment"
    /\ last.result = "TunnelIdInUse"
    /\ [vxlan_vni |-> last.arg, allocated |-> TRUE] \in allocations

\* C5: reserve_provider_segment with a segmentation id that has no row is
\* refused with an outcome other than TunnelIdInUse (ResourceUnavailable),
\* and the table is left as it was.
C5_MissingIdUnavailable ==
    [][(FullReserve /\ Rows(allocations, last'.arg) = {})
           => /\ last'.result \notin {"segment", "TunnelIdInUse"}
              /\ allocations' = allocations]_vars

\* C6: release_segment of a vni with a row, inside the ranges, leaves the
\* row unallocated and a fully specified allocation of it made next
\* succeeds; outside the ranges it deletes the row and a fully specified
\* allocation of it made next is refused as unavailable (not as in use).
C6_ReleaseThenAllocate ==
    [][/\ (Release /\ Rows(allocations, last'.arg) # {})
           => Rows(allocations', last'.arg) =
                  IF inside(tunnel_ranges, last'.arg)
                      THEN {[vxlan_vni |-> last'.arg, allocated |-> FALSE]}
                      ELSE {}
       /\ (/\ last.op = "release_segment" /\ last.result = "ok"
           /\ FullReserve /\ last'.arg = last.arg)
           => IF inside(tunnel_ranges, last.arg)
                  THEN last'.result = "segment" /\ last'.vni = last.arg
                  ELSE last'.result \notin {"segment", "TunnelIdInUse"}]_vars

----------------------------------------------------------------------------
(* Reconciliation again, and rows outside the ranges *)

\* C7: a successful sync_allocations that follows a successful one with the
\* same tunnel_ranges, no allocate or release call made in between (the
\* service stopped right after the first), removes nothing, inserts nothing
\* and leaves the table as it was.
C7_SyncIdempotent ==
    [][(/\ last.op = "stop" /\ last.repeat
        /\ Synced
        /\ tunnel_ranges' = tunnel_ranges)
           => /\ allocations' = allocations
              /\ last'.removed = {}
              /\ last'.added = {}]_vars

\* a second sync with the same non-empty ranges ran on a table with free and
\* allocated rows and changed nothing
C7_Witness ==
    /\ last.op = "initialize" /\ last.repeat
    /\ tunnel_ranges # <<>>
    /\ last.removed = {} /\ last.added = {}
    /\ \E a \in allocations : a.allocated
    /\ \E a \in allocations : ~a.allocated

\* C8: an allocated row outside the configured ranges stays in the table,
\* allocated, through every call but release_segment of its vni (and so
\* through a sync with new ranges); release_segment of a vni outside the
\* ranges deletes the row; and a vni whose row was deleted by
\* release_segment has no row, and is returned by no allocation, until a
\* sync re-creates the row.
C8_ReleasedOutsideNotRecycled ==
    [][/\ \A a \in allocations :
              (/\ a.allocated
               /\ ~inside(tunnel_ranges', a.vxlan_vni)
               /\ ~(Release /\ last'.arg = a.vxlan_vni))
                  => Rows(allocations', a.vxlan_vni) = {a}
       /\ (Release /\ ~inside(tunnel_ranges, last'.arg))
              => Rows(allocations', last'.arg) = {}
       /\ last'.result = "segment" => last'.vni \notin pruned
       /\ \A vni \in pruned : Rows(allocations, vni) = {}
       /\ \A vni \in pruned \ pruned' : vni \in last'.added]_vars

\* the ranges changed under an allocated row, release_segment deleted it,
\* and a fully specified request for its vni was then refused
C8_Witness ==
    /\ last.op = "reserve_provider_segment"
    /\ last.arg \in pruned
    /\ last.result = "TunnelIdInUse"
    /\ Rows(allocations, last.arg) = {}
    /\ ~inside(tunnel_ranges, last.arg)

----------------------------------------------------------------------------
(* Calls that change nothing *)

\* C9: release_segment of a vni that has no row leaves the table as it was
\* and raises nothing (it logs the warning), inside the ranges or not.
C9_ReleaseUntracked ==
    [][(Release /\ Rows(allocations, last'.arg) = {})
           => (allocations' = allocations /\ last'.result = "warning")]_vars

\* release_segment logged the warning for a configured vni without a row
C9_Witness ==
    /\ last.op = "release_segment"
    /\ last.result = "warning"
    /\ inside(tunnel_ranges, last.arg)
    /\ Rows(allocations, last.arg) = {}

\* C10: with no unallocated row in the table a partially specified request
\* leaves the table as it was; reserve_provider_segment raises
\* NoNetworkAvailable and allocate_tenant_segment returns nothing.
C10_PoolExhausted ==
    [][((PartialReserve \/ TenantAllocate) /\ free_vnis(allocations) = {})
           => /\ allocations' = allocations
              /\ PartialReserve => last'.result = "NoNetworkAvailable"
              /\ TenantAllocate => (last'.result = "None" /\ last'.vni = NONE)]_vars

\* every row is allocated and reserve_provider_segment reported exhaustion
C10_Witness ==
    /\ last.op = "reserve_provider_segment" /\ last.arg = NONE
    /\ last.result = "NoNetworkAvailable"
    /\ allocations # {}
    /\ \A a \in allocations : a.allocated

----------------------------------------------------------------------------
(* The parser and initialize on a given configuration: conf holds the      *)
(* entries of vni_ranges, the table is any table of an earlier run.        *)

InitParse ==
    /\ tunnel_ranges = <<>>
    /\ allocations \in AnyTables
    /\ serving = FALSE
    /\ last = NoCall
    /\ pruned = {}
    /\ callers = <<>>
    /\ free0 = 0
    /\ held = {}
    /\ conf \in Configs
    /\ txn = NoTxn

\* the entry the parser stops at: the first it raises on
RECURSIVE failing_entry(_)
failing_entry(entries) ==
    IF _parse_h3c_vni_ranges(<<Head(entries)>>, <<>>).error # "ok"
        THEN Head(entries)
        ELSE failing_entry(Tail(entries))

\* _parse_h3c_vni_ranges(conf, []) alone; last.result is the error raised
\* ("ok" when none), last.vni the id the "value" error names
ParseConf ==
    LET parsed == _parse_h3c_vni_ranges(conf, <<>>)
    IN  /\ last.op = "none"
        /\ tunnel_ranges' = parsed.ranges
        /\ last' = [NoCall EXCEPT
                        !.op = "_parse_h3c_vni_ranges",
                        !.result = parsed.error,
                        !.vni = IF parsed.error = "value"
                                    THEN first_invalid(<<failing_entry(conf).tun_min,
                                                         failing_entry(conf).tun_max>>)
                                    ELSE NONE]
        /\ UNCHANGED <<allocations, serving, pruned, callers, free0, held, conf, txn>>

\* initialize with conf as the configured vni_ranges
InitializeConf ==
    /\ last.op = "none"
    /\ Initialize(_verify_vni_ranges(conf))

NextParse ==
    \/ ParseConf
    \/ InitializeConf

SpecParse == InitParse /\ [][NextParse]_vars

\* what the range validator is to accept
InDomain(vni) == MIN_VXLAN_VNI <= vni /\ vni <= MAX_VXLAN_VNI

WellFormed(entry) == entry.fields = 2 /\ entry.ints

Acceptable(entry) ==
    /\ WellFormed(entry)
    /\ InDomain(entry.tun_min) /\ InDomain(entry.tun_max)
    /\ entry.tun_min <= entry.tun_max

Rejected(entries) == {i \in 1..Len(entries) : ~Acceptable(entries[i])}

FirstRejected(entries) ==
    entries[CHOOSE i \in Rejected(entries) : \A j \in Rejected(entries) : i <= j]

\* C11: when an entry of the configuration is invalid, initialize ends in
\* SystemExit with the table as it was and with no range in tunnel_ranges,
\* the valid entries before the invalid one included.
C11_InvalidConfigAcceptsNothing ==
    [][(last'.op = "initialize" /\ Rejected(conf) # {})
           => /\ last'.result = "SystemExit"
              /\ allocations' = allocations
              /\ tunnel_ranges' = <<>>]_vars

\* C16: the parser accepts the entries exactly when every pair has
\* MIN <= low <= high <= MAX; at the first other pair it raises the value
\* error, naming the low bound if that is out of the domain and else the
\* high bound, when a bound is out of the domain, and the order error when
\* both are in it and high < low; on success the ranges are the pairs in
\* input order.
C16_RangeValidator ==
    last.op = "_parse_h3c_vni_ranges" =>
        IF Rejected(conf) = {}
            THEN /\ last.result = "ok"
                 /\ tunnel_ranges = [i \in 1..Len(conf) |-> <<conf[i].tun_min, conf[i].tun_max>>]
            ELSE LET entry == FirstRejected(conf)
                 IN  /\ last.result # "ok"
                     /\ WellFormed(entry) =>
                            IF ~InDomain(entry.tun_min)
                                THEN last.result = "value" /\ last.vni = entry.tun_min
                            ELSE IF ~InDomain(entry.tun_max)
                                THEN last.result = "value" /\ last.vni = entry.tun_max
                            ELSE last.result = "order"

\* two pairs were accepted in input order, the second one not above the first
C16_Witness ==
    /\ last.op = "_parse_h3c_vni_ranges" /\ last.result = "ok"
    /\ Len(conf) = 2
    /\ Len(tunnel_ranges) = 2
    /\ tunnel_ranges[2][1] < tunnel_ranges[1][1]

----------------------------------------------------------------------------
(* Routing, holding and frame *)

\* the rows of vnis other than vni are the same in both tables
SameElsewhere(before, after, vni) ==
    {a \in before : a.vxlan_vni # vni} = {a \in after : a.vxlan_vni # vni}

\* C17: reserve_provider_segment with segmentation id X returns a segment
\* with id X or raises, and leaves the rows of every other vni as they
\* were; with no segmentation id, the vni it returns had an unallocated row
\* before the call and has an allocated row after it.
C17_ReserveRouting ==
    [][/\ FullReserve =>
              /\ last'.result \in {"segment", "TunnelIdInUse"}
              /\ last'.result = "segment" => last'.vni = last'.arg
              /\ SameElsewhere(allocations, allocations', last'.arg)
       /\ (PartialReserve /\ last'.result = "segment") =>
              /\ [vxlan_vni |-> last'.vni, allocated |-> FALSE] \in allocations
              /\ [vxlan_vni |-> last'.vni, allocated |-> TRUE] \in allocations']_vars

\* a fully specified request got its vni while another row was free
C17_Witness ==
    /\ last.op = "reserve_provider_segment" /\ last.arg # NONE
    /\ last.result = "segment" /\ last.vni = last.arg
    /\ [vxlan_vni |-> last.arg, allocated |-> TRUE] \in allocations
    /\ \E a \in allocations : a.vxlan_vni # last.arg /\ ~a.allocated

\* C18: an allocation never returns a vni that an earlier allocation
\* returned and that release_segment has not been called on since,
\* whatever calls and restarts (sync_allocations with the same or other
\* ranges) came in between.
C18_ExclusiveHolding ==
    [][last'.result = "segment" => last'.vni \notin held]_vars

\* a held vni, left outside the ranges by a later sync, was asked for again
\* and refused
C18_Witness ==
    /\ last.op = "reserve_provider_segment"
    /\ last.result = "TunnelIdInUse"
    /\ last.arg \in held
    /\ ~inside(tunnel_ranges, last.arg)
    /\ tunnel_ranges # <<>>

\* C19: while the driver serves, every unallocated row lies inside a
\* configured range, and a vni returned by an allocate-any request lies
\* inside a configured range.
C19_FreeRowsInsideRanges ==
    serving =>
        /\ \A a \in allocations : ~a.allocated => inside(tunnel_ranges, a.vxlan_vni)
        /\ (/\ last.op \in AllocateAnyOps /\ last.arg = NONE
            /\ last.result = "segment") => inside(tunnel_ranges, last.vni)

\* a release returned a row to the pool while an allocated row lies outside
\* the ranges
C19_Witness ==
    /\ serving
    /\ last.op = "release_segment" /\ last.result = "ok"
    /\ [vxlan_vni |-> last.arg, allocated |-> FALSE] \in allocations
    /\ \E a \in allocations : a.allocated /\ ~inside(tunnel_ranges, a.vxlan_vni)

\* the table after release_segment(vni) or after a fully specified
\* reserve_provider_segment(vni)
After(op, allocs, vni) ==
    IF op = "release_segment"
        THEN release_segment(allocs, tunnel_ranges, vni).allocs
        ELSE (CHOOSE o \in reserve_provider_segment(allocs, vni) : TRUE).allocs

\* C20: release_segment(X) and a fully specified allocation of X leave the
\* rows of every other vni, and tunnel_ranges, as they were; two such calls
\* on different vnis give the same table in either order.
C20_Frame ==
    [][(Release \/ FullReserve) =>
           /\ SameElsewhere(allocations, allocations', last'.arg)
           /\ tunnel_ranges' = tunnel_ranges
           /\ allocations' = After(last'.op, allocations, last'.arg)
           /\ \A y \in Vnis \ {last'.arg} :
                  \A g \in {"release_segment", "reserve_provider_segment"} :
                      After(g, allocations', y)
                          = After(last'.op, After(g, allocations, y), last'.arg)]_vars

\* a row was released while another vni keeps its allocated row
C20_Witness ==
    /\ last.op = "release_segment" /\ last.result = "ok"
    /\ [vxlan_vni |-> last.arg, allocated |-> FALSE] \in allocations
    /\ \E a \in allocations : a.vxlan_vni # last.arg /\ a.allocated

----------------------------------------------------------------------------
(* The chunked loops of sync_allocations on tables and ranges large enough *)
(* for several chunks: the vnis are MIN_VXLAN_VNI..MaxChunkVni and the     *)
(* chunk size is bulk_size scaled down to 1..MaxBulk, or bulk_size itself  *)

MaxChunkVni == 5
MaxBulk == 2

ChunkVnis == MIN_VXLAN_VNI..MaxChunkVni
BulkSizes == (1..MaxBulk) \cup {bulk_size}

InitChunk ==
    /\ tunnel_ranges \in {<<>>} \cup {<<<<lo, hi>>>> : lo \in ChunkVnis, hi \in ChunkVnis}
    /\ \A i \in 1..Len(tunnel_ranges) : tunnel_ranges[i][1] <= tunnel_ranges[i][2]
    /\ allocations \in {Table(present, taken) : present \in SUBSET ChunkVnis,
                                                taken \in SUBSET ChunkVnis}
    /\ serving = FALSE
    /\ last = NoCall
    /\ pruned = {}
    /\ callers = <<>>
    /\ free0 = 0
    /\ held = {}
    /\ conf = <<>>
    /\ txn = NoTxn

\* sync_allocations with chunks of the given size
SyncAllocationsSized(size) ==
    /\ last.op = "none"
    /\ allocations' = sync_allocations_sized(allocations, tunnel_ranges, size)
    /\ serving' = TRUE
    /\ last' = [NoCall EXCEPT !.op = "sync_allocations",
                              !.arg = size,
                              !.result = "ok",
                              !.removed = vnis_to_remove(allocations, vxlan_vnis(tunnel_ranges)),
                              !.added = vnis_to_add(vxlan_vnis(tunnel_ranges),
                                                    existing_vnis(allocations))]
    /\ UNCHANGED <<tunnel_ranges, pruned, callers, free0, held, conf, txn>>

NextChunk == \E size \in BulkSizes : SyncAllocationsSized(size)

SpecChunk == InitChunk /\ [][NextChunk]_vars

\* the concatenation of the chunks
RECURSIVE Flatten(_)
Flatten(chunks) ==
    IF chunks = <<>> THEN <<>> ELSE Head(chunks) \o Flatten(Tail(chunks))

\* the chunks cut l into nonempty pieces of at most size elements, every
\* piece but the last of exactly size
ExactlyOnce(l, size) ==
    LET chunks == chunked(l, size)
    IN  /\ Flatten(chunks) = l
        /\ \A i \in 1..Len(chunks) :
               /\ Len(chunks[i]) \in 1..size
               /\ i < Len(chunks) => Len(chunks[i]) = size

\* one delete of every row whose vni is in to_remove, then one insert of an
\* unallocated row per vni of to_add
Unchunked(allocs, to_remove, to_add) ==
    {a \in allocs : a.vxlan_vni \notin to_remove}
        \cup {[vxlan_vni |-> vni, allocated |-> FALSE] : vni \in to_add}

\* C15: whatever the sizes of to_remove and to_add against the chunk size,
\* the chunks hold every vni of to_remove and of to_add exactly once, and
\* the table after the chunked deletes and inserts is the table after one
\* delete of to_remove and one insert of to_add.
C15_ChunkingTransparent ==
    [][last'.op = "sync_allocations" =>
           /\ ExactlyOnce(list(last'.removed), last'.arg)
           /\ ExactlyOnce(list(last'.added), last'.arg)
           /\ allocations' = Unchunked(allocations, last'.removed, last'.added)]_vars

\* a run with three vnis to remove (a full chunk and a partial one) and two
\* to add (exactly one chunk)
C15_Witness ==
    /\ last.op = "sync_allocations" /\ last.arg = 2
    /\ Cardinality(last.removed) = 3
    /\ Cardinality(last.added) = 2
    /\ Cardinality(allocations) = 2

----------------------------------------------------------------------------
(* Sessions racing on the shared table: one sync_allocations transaction   *)
(* run statement by statement, allocation requests that lock the row they  *)
(* take before they update it, and release_segment calls of one statement. *)
(* allocations is the committed table; a transaction's writes reach it at  *)
(* commit.  tunnel_ranges are the ranges of the serving driver, txn.ranges *)
(* those of the driver that synchronises.                                  *)

\* mutant: the query reads without with_lockmode("update")
row_locks_none(allocs) == {}

\* session.query(H3CVxlanAllocation).with_lockmode("update").all(): the
\* rows locked until the transaction ends
row_locks(allocs) == existing_vnis(allocs)

\* the table with a transaction's deletes and inserts applied
written(allocs, deleted, inserted) ==
    {a \in allocs : a.vxlan_vni \notin deleted}
        \cup {[vxlan_vni |-> vni, allocated |-> FALSE] : vni \in inserted}

\* mutant: the statements are not inside session.begin, each is seen at once
visible_uncommitted(allocs, deleted, inserted) == written(allocs, deleted, inserted)

\* the table another session reads while the transaction is open
visible(allocs, deleted, inserted) == allocs

\* mutant: the update or delete of release_segment does not wait for the lock
release_waits_never(locks, vxlan_vni) == FALSE

\* query.update / query.delete on a row locked by another session waits
release_waits(locks, vxlan_vni) == vxlan_vni \in locks

RaceRanges == {<<>>} \cup {<<r>> : r \in ValidRanges}

TxnOpen == txn.pc = "open"
TxnLocks == IF TxnOpen THEN txn.locks ELSE {}
Locked == TxnLocks \cup DOMAIN callers

\* the table a session other than the transaction's reads
Seen == IF TxnOpen THEN visible(allocations, txn.deleted, txn.inserted)
        ELSE allocations

InitRace ==
    /\ tunnel_ranges \in RaceRanges
    /\ allocations \in AnyTables
    /\ serving = TRUE
    /\ last = NoCall
    /\ pruned = {}
    /\ callers = <<>>
    /\ free0 = 0
    /\ held = {}
    /\ conf = <<>>
    /\ txn = NoTxn

\* session.begin, the locking query, and the two lists cut into chunks
SyncBegin(ranges, size) ==
    /\ ~TxnOpen
    /\ row_locks(allocations) \cap DOMAIN callers = {}
    /\ txn' = [pc |-> "open", ranges |-> ranges,
               locks |-> row_locks(allocations),
               removing |-> chunked(list(vnis_to_remove(allocations, vxlan_vnis(ranges))), size),
               adding |-> chunked(list(vnis_to_add(vxlan_vnis(ranges),
                                                   existing_vnis(allocations))), size),
               deleted |-> {}, inserted |-> {}, waiters |-> {}]
    /\ last' = [NoCall EXCEPT !.op = "sync_allocations", !.result = "begin"]
    /\ UNCHANGED <<tunnel_ranges, allocations, serving, pruned, callers, free0, held, conf>>

\* one pass of the delete loop
SyncDeleteChunk ==
    /\ TxnOpen /\ txn.removing # <<>>
    /\ txn' = [txn EXCEPT !.removing = Tail(@),
                          !.deleted = @ \cup Elems(Head(txn.removing))]
    /\ UNCHANGED <<tunnel_ranges, allocations, serving, last, pruned, callers, free0, held, conf>>

\* one pass of the insert loop
SyncInsertChunk ==
    /\ TxnOpen /\ txn.removing = <<>> /\ txn.adding # <<>>
    /\ txn' = [txn EXCEPT !.adding = Tail(@),
                          !.inserted = @ \cup Elems(Head(txn.adding))]
    /\ UNCHANGED <<tunnel_ranges, allocations, serving, last, pruned, callers, free0, held, conf>>

\* leaving the with block: commit
SyncCommit ==
    /\ TxnOpen /\ txn.removing = <<>> /\ txn.adding = <<>>
    /\ allocations' = written(allocations, txn.deleted, txn.inserted)
    /\ txn' = NoTxn
    /\ last' = [NoCall EXCEPT !.op = "sync_allocations", !.result = "ok",
                              !.removed = txn.deleted, !.added = txn.inserted,
                              !.waited = txn.waiters]
    /\ UNCHANGED <<tunnel_ranges, serving, pruned, callers, free0, held, conf>>

\* an exception inside the with block: rollback
SyncRollback ==
    /\ TxnOpen
    /\ txn' = NoTxn
    /\ last' = [NoCall EXCEPT !.op = "sync_allocations", !.result = "rollback",
                              !.removed = txn.deleted, !.added = txn.inserted,
                              !.waited = txn.waiters]
    /\ UNCHANGED <<tunnel_ranges, allocations, serving, pruned, callers, free0, held, conf>>

\* the outcomes of an allocation request run as one step on table allocs
Outcomes(op, allocs, segment) ==
    IF op = "allocate_tenant_segment"
        THEN allocate_tenant_segment(allocs)
        ELSE reserve_provider_segment(allocs, segment)

Requests ==
    {<<"allocate_tenant_segment", NONE>>}
        \cup {<<"reserve_provider_segment", segment>> :
                  segment \in (MIN_VXLAN_VNI..MAX_VXLAN_VNI) \cup {NONE}}

\* an allocation request reads the table: with no row to take it returns at
\* once, otherwise it locks the row it takes
RaceAllocate(op, segment) ==
    /\ \E o \in Outcomes(op, Seen, segment) :
           IF o.result = "segment"
               THEN /\ o.vni \notin Locked
                    /\ callers' = [vni \in DOMAIN callers \cup {o.vni} |->
                                      IF vni = o.vni
                                          THEN [op |-> op, segment |-> segment, waited |-> FALSE]
                                          ELSE callers[vni]]
                    /\ last' = last
               ELSE /\ callers' = callers
                    /\ last' = [NoCall EXCEPT !.op = op, !.arg = segment,
                                              !.result = o.result]
    /\ UNCHANGED <<tunnel_ranges, allocations, serving, pruned, free0, held, conf, txn>>

\* the row an allocation request takes is locked by the open transaction
RaceAllocateWaits(op, segment) ==
    /\ TxnOpen
    /\ \E o \in Outcomes(op, Seen, segment) :
           /\ o.result = "segment"
           /\ o.vni \in txn.locks \ txn.waiters
           /\ txn' = [txn EXCEPT !.waiters = @ \cup {o.vni}]
    /\ UNCHANGED <<tunnel_ranges, allocations, serving, last, pruned, callers, free0, held, conf>>

\* the request that locked the row of vxlan_vni updates it and returns
RaceAllocated(vxlan_vni) ==
    /\ vxlan_vni \in DOMAIN callers
    /\ allocations' = set_allocated(allocations, vxlan_vni, TRUE)
    /\ last' = [NoCall EXCEPT !.op = callers[vxlan_vni].op,
                              !.arg = callers[vxlan_vni].segment,
                              !.result = "segment",
                              !.vni = vxlan_vni,
                              !.waited = IF callers[vxlan_vni].waited
                                             THEN {vxlan_vni} ELSE {}]
    /\ callers' = [vni \in DOMAIN callers \ {vxlan_vni} |-> callers[vni]]
    /\ UNCHANGED <<tunnel_ranges, serving, pruned, free0, held, conf, txn>>

\* release_segment's statement waits for the row an allocation has locked
RaceReleaseWaits(vxlan_vni) ==
    /\ vxlan_vni \in DOMAIN callers
    /\ release_waits(DOMAIN callers, vxlan_vni)
    /\ ~callers[vxlan_vni].waited
    /\ callers' = [callers EXCEPT ![vxlan_vni].waited = TRUE]
    /\ UNCHANGED <<tunnel_ranges, allocations, serving, last, pruned, free0, held, conf, txn>>

\* release_segment
RaceRelease(vxlan_vni) ==
    /\ ~release_waits(Locked, vxlan_vni)
    /\ LET released == release_segment(allocations, tunnel_ranges, vxlan_vni)
       IN  /\ allocations' = released.allocs
           /\ last' = [NoCall EXCEPT !.op = "release_segment", !.arg = vxlan_vni,
                                     !.result = IF released.count = 0 THEN "warning"
                                                ELSE "ok"]
    /\ UNCHANGED <<tunnel_ranges, serving, pruned, callers, free0, held, conf, txn>>

NextRace ==
    \/ \E ranges \in RaceRanges : \E size \in 1..MaxBulk : SyncBegin(ranges, size)
    \/ SyncDeleteChunk
    \/ SyncInsertChunk
    \/ SyncCommit
    \/ SyncRollback
    \/ \E r \in Requests : RaceAllocate(r[1], r[2])
    \/ \E r \in Requests : RaceAllocateWaits(r[1], r[2])
    \/ \E vxlan_vni \in MIN_VXLAN_VNI..MAX_VXLAN_VNI : RaceAllocated(vxlan_vni)
    \/ \E vxlan_vni \in MIN_VXLAN_VNI..MAX_VXLAN_VNI : RaceReleaseWaits(vxlan_vni)
    \/ \E vxlan_vni \in MIN_VXLAN_VNI..MAX_VXLAN_VNI : RaceRelease(vxlan_vni)

SpecRace == InitRace /\ [][NextRace]_vars

\* a call of a session other than the transaction's returned in this step
Returned(ops) == last' # last /\ last'.op \in ops

\* the vnis the open transaction deletes: deleted already, or still to delete
ToRemove == txn.deleted \cup UNION {Elems(txn.removing[i]) : i \in 1..Len(txn.removing)}

\* C12: while sync_allocations runs next to allocation requests, no
\* allocated row is deleted by it: from its locking read to the end of its
\* transaction the rows it deletes stay unallocated, and no allocation of a
\* row it has read takes effect.
C12_SyncKeepsAllocated ==
    [][TxnOpen =>
           /\ \A vni \in ToRemove :
                  /\ [vxlan_vni |-> vni, allocated |-> FALSE] \in allocations
                  /\ [vxlan_vni |-> vni, allocated |-> TRUE] \notin allocations
           /\ txn' # txn =>
                  \A a \in allocations : a.allocated => a \in allocations'
           /\ (Returned(AllocateAnyOps) /\ last'.result = "segment") =>
                  last'.vni \notin existing_vnis(allocations)]_vars

\* a sync committed the deletion of a row that an allocation request was
\* waiting for
C12_Witness ==
    /\ last.op = "sync_allocations" /\ last.result = "ok"
    /\ last.removed \cap last.waited # {}
    /\ \A vni \in last.removed : Rows(allocations, vni) = {}

\* C13: an allocation request that runs next to release_segment calls on
\* the same vni returns, and leaves the table, as if it ran in one step at
\* the moment it returns (so the two calls are in one of the two serial
\* orders), and the vni it returns has an allocated row at that moment.
C13_ReleaseSerialized ==
    [][/\ Returned(AllocateAnyOps) =>
              /\ \E o \in Outcomes(last'.op, allocations, last'.arg) :
                     /\ o.result = last'.result
                     /\ o.vni = last'.vni
                     /\ o.allocs = allocations'
              /\ last'.result = "segment" =>
                     [vxlan_vni |-> last'.vni, allocated |-> TRUE] \in allocations'
       /\ Returned({"release_segment"}) =>
              /\ Rows(allocations', last'.arg)
                     \subseteq {[vxlan_vni |-> last'.arg, allocated |-> FALSE]}
              /\ ~inside(tunnel_ranges, last'.arg) => Rows(allocations', last'.arg) = {}]_vars

\* an allocation took a row outside the ranges while a release_segment of
\* the same vni waited for it
C13_Witness ==
    /\ last.op \in AllocateAnyOps /\ last.result = "segment"
    /\ last.waited = {last.vni}
    /\ ~inside(tunnel_ranges, last.vni)
    /\ [vxlan_vni |-> last.vni, allocated |-> TRUE] \in allocations

\* C14: what other sessions read does not change while the transaction of
\* sync_allocations is open, whatever chunks it has applied; the calls that
\* return meanwhile return what the table before the transaction gives;
\* commit applies all the deletes and inserts at once, rollback none.
C14_SyncAtomic ==
    [][TxnOpen =>
           /\ txn'.pc = "open" => allocations' = allocations
           /\ (txn'.pc = "none" /\ last'.result = "ok") =>
                  allocations' = sync_allocations(allocations, txn.ranges)
           /\ (txn'.pc = "none" /\ last'.result = "rollback") =>
                  allocations' = allocations
           /\ Returned(AllocateAnyOps) =>
                  \E o \in Outcomes(last'.op, allocations, last'.arg) :
                      o.result = last'.result /\ o.vni = last'.vni
           /\ Returned({"release_segment"}) =>
                  (last'.result = "warning"
                       <=> release_segment(allocations, tunnel_ranges, last'.arg).count = 0)]_vars

\* an allocation request returned while the transaction had applied its
\* deletes and not yet its inserts
C14_Witness ==
    /\ TxnOpen
    /\ txn.deleted # {} /\ txn.adding # <<>>
    /\ last.op \in AllocateAnyOps
    /\ last.arg \in Elems(Head(txn.adding))

====
